---- MODULE Spec2Model ----
(***************************************************************************)
(* Model of cmd/main.go: the bubbletea model of the mail form.  The state  *)
(* is the model struct (inputs, focused, err) together with what the run   *)
(* has produced so far: the message last delivered to Update, whether      *)
(* Update has returned tea.Quit, the calls made to sendMsg, and the field  *)
(* and content of the validation that failed last, kept for as long as the *)
(* field holds that content.                                               *)
(*                                                                         *)
(* A string is a sequence of one-character strings, so that the address    *)
(* parser and the text inputs work on characters.                          *)
(***************************************************************************)
EXTENDS Integers, Sequences, FiniteSets, TLC

VARIABLES inputs, focused, err, msg, quit, sent, failed

vars == <<inputs, focused, err, msg, quit, sent, failed>>

(* ---------------------------------------------------------------- bounds *)

\* Longest content the exploration lets a field hold (the code's own limit
\* is CharLimit).
MaxLen == 7

\* Calls to sendMsg the exploration follows before it stops delivering
\* ctrl+s.
MaxSends == 2

(* ------------------------------------------------------------- constants *)

to == 0

from == 1

subject == 2

body == 3

NumInputs == 4

CharLimit == 50

Fields == 0 .. (NumInputs - 1)

nil == "nil"

InvalidAddress == "invalid email address"

(* ----------------------------------------------------- net/mail addresses *)

\* The characters the keyboard of the model produces.  All of them are
\* atext, "." or "@": no white space, quotes, comments or angle brackets.
Letters == {"a", "b", "c", "d", "m", "n", "o", "t"}

isAtext(r, dot) == r \in Letters \/ r = "-" \/ (dot /\ r = ".")

RECURSIVE AtomLen(_)
\* Length of the longest prefix of s made of dot-atom characters.
AtomLen(s) ==
    IF s = <<>> \/ ~isAtext(Head(s), TRUE) THEN 0 ELSE 1 + AtomLen(Tail(s))

HasDoubleDot(a) == \E i \in 1 .. (Len(a) - 1) : a[i] = "." /\ a[i + 1] = "."

\* consumeAtom(dot = true, permissive = false): the atom is the longest
\* dot-atom prefix; it may not be empty, start or end with a dot, or hold
\* two dots in a row.
consumeAtom(s) ==
    LET i == AtomLen(s)
        atom == SubSeq(s, 1, i)
    IN IF i = 0 \/ atom[1] = "." \/ HasDoubleDot(atom) \/ atom[i] = "."
       THEN [ok |-> FALSE, rest |-> s]
       ELSE [ok |-> TRUE, rest |-> SubSeq(s, i + 1, Len(s))]

\* consumeAddrSpec: local-part "@" domain, each a dot-atom.
consumeAddrSpec(s) ==
    LET l == consumeAtom(s)
    IN IF s = <<>> \/ ~l.ok THEN [ok |-> FALSE, rest |-> s]
       ELSE IF l.rest = <<>> \/ Head(l.rest) # "@" THEN [ok |-> FALSE, rest |-> s]
       ELSE LET d == consumeAtom(Tail(l.rest))
            IN IF Tail(l.rest) = <<>> \/ ~d.ok THEN [ok |-> FALSE, rest |-> s]
               ELSE [ok |-> TRUE, rest |-> d.rest]

\* mail.ParseAddress(s) returns no error.  Without "<" in the input the
\* name-addr form never parses, so the address is an addr-spec that takes
\* the whole string.
ParseAddressOk(s) ==
    LET a == consumeAddrSpec(s)
    IN s # <<>> /\ a.ok /\ a.rest = <<>>

(* ---------------------------------------------------- textinput.Model *)

\* textinput.New(): empty, cursor at 0, not focused, cursor shown (Blink).
NewInput == [value |-> <<>>, pos |-> 0, focus |-> FALSE, blink |-> TRUE]

Focus(in) == [in EXCEPT !.focus = TRUE, !.blink = FALSE]

Blur(in) == [in EXCEPT !.focus = FALSE, !.blink = TRUE]

Value(in) == in.value

Min(a, b) == IF a < b THEN a ELSE b

\* insertRunesFromUserInput: the runes go in at the cursor, cut down to the
\* room CharLimit leaves; the cursor ends after them.
InsertRunes(in, runes) ==
    LET avail == CharLimit - Len(in.value)
        paste == IF avail <= 0 THEN <<>> ELSE SubSeq(runes, 1, Min(avail, Len(runes)))
    IN [in EXCEPT
          !.value = SubSeq(in.value, 1, in.pos) \o paste
                        \o SubSeq(in.value, in.pos + 1, Len(in.value)),
          !.pos = in.pos + Len(paste)]

\* deleteBeforeCursor (ctrl+u).
DeleteBeforeCursor(in) ==
    [in EXCEPT !.value = SubSeq(in.value, in.pos + 1, Len(in.value)), !.pos = 0]

\* CursorStart (home, ctrl+a) and CursorEnd (end, ctrl+e).
CursorStart(in) == [in EXCEPT !.pos = 0]

CursorEnd(in) == [in EXCEPT !.pos = Len(in.value)]

\* Mutant of InputUpdate: a focused input takes enter, tab, shift+tab and
\* ctrl+n as text and inserts a tab character.
InputUpdateKeysAsText(in, m) ==
    IF ~in.focus THEN in
    ELSE CASE m.type = "KeyRunes" -> InsertRunes(in, m.runes)
           [] m.type = "KeyCtrlU" -> DeleteBeforeCursor(in)
           [] m.type = "KeyHome" -> CursorStart(in)
           [] m.type = "KeyEnd" -> CursorEnd(in)
           [] m.type = "BlinkMsg" -> [in EXCEPT !.blink = ~in.blink]
           [] m.type \in {"KeyEnter", "KeyTab", "KeyShiftTab", "KeyCtrlN"} ->
                 InsertRunes(in, <<"\t">>)
           [] OTHER -> in

\* textinput.Model.Update: an input that is not focused ignores the
\* message.  A key that is bound to nothing and carries no runes (enter,
\* tab, shift+tab, ctrl+n, esc) changes nothing.
InputUpdate(in, m) ==
    IF ~in.focus THEN in
    ELSE CASE m.type = "KeyRunes" -> InsertRunes(in, m.runes)
           [] m.type = "KeyCtrlU" -> DeleteBeforeCursor(in)
           [] m.type = "KeyHome" -> CursorStart(in)
           [] m.type = "KeyEnd" -> CursorEnd(in)
           [] m.type = "BlinkMsg" -> [in EXCEPT !.blink = ~in.blink]
           [] OTHER -> in

(* ------------------------------------------------------------- messages *)

AddrA == <<"a", "@", "b", ".", "c", "o", "m">>

AddrC == <<"c", "@", "d", ".", "c", "o", "m">>

NotAnAddr == <<"n", "o", "t", "-", "a", "n">>

Typed == {AddrA, AddrC, NotAnAddr}

Key(t) == [type |-> t, runes |-> <<>>]

KeyRunesMsg(r) == [type |-> "KeyRunes", runes |-> r]

AdvanceKeys == {"KeyEnter", "KeyTab", "KeyCtrlN"}

EditKeys == {"KeyCtrlU", "KeyHome", "KeyEnd"}

NoMsg == Key("none")

\* No validation has failed yet.
NoFailure == [field |-> -1, value |-> <<>>]

(* ------------------------------------------------------------ the model *)

\* initialModel
Init ==
    /\ inputs = [i \in Fields |-> IF i = to THEN Focus(NewInput) ELSE NewInput]
    /\ focused = 0
    /\ err = nil
    /\ msg = NoMsg
    /\ quit = FALSE
    /\ sent = <<>>
    /\ failed = NoFailure

\* Mutant of validateAddress: an empty field passes.
validateAddressEmptyOk ==
    IF Value(inputs[focused]) = <<>> \/ ParseAddressOk(Value(inputs[focused]))
    THEN nil ELSE InvalidAddress

validateAddress ==
    IF ParseAddressOk(Value(inputs[focused])) THEN nil ELSE InvalidAddress

\* Mutant of nextInput: no wrap-around at the last input.
nextInputNoWrap(f) == IF f + 1 < NumInputs THEN f + 1 ELSE f

nextInput(f) == (f + 1) % NumInputs

prevInput(f) == (f - 1 + NumInputs) % NumInputs

\* The arguments of the call m.sendMsg(): it has none.
sendMsgArgs == <<>>

\* Mutant of BlurAll: the blur loop is left out.
BlurAllSkipped(ins) == ins

\* Lines 163-165: every input is blurred.
BlurAll(ins) == [i \in Fields |-> Blur(ins[i])]

\* Mutant of Refocus: the input focused is the one that had the focus
\* before the switch moved the index.
RefocusStale(ins, f) == [BlurAll(ins) EXCEPT ![focused] = Focus(@)]

\* Lines 163-168: blur all the inputs, then focus inputs[f].
Refocus(ins, f) == [BlurAll(ins) EXCEPT ![f] = Focus(@)]

\* Lines 179-184: every input is updated with the message.
UpdateInputs(ins, m) == [i \in Fields |-> InputUpdate(ins[i], m)]

\* The tail of the KeyMsg case for a key that does not return early, with
\* the focus index f the switch has left.
KeyTail(m, f) ==
    /\ focused' = f
    /\ inputs' = UpdateInputs(Refocus(inputs, f), m)

\* Mutant of KeyAdvance: m.err is assigned only when the validation fails,
\* so a validation that passes leaves an earlier error in place.
KeyAdvanceKeepsErr ==
    \E k \in AdvanceKeys :
       /\ ~quit
       /\ msg' = Key(k)
       /\ UNCHANGED <<quit, sent>>
       /\ IF (focused = to \/ focused = from) /\ validateAddress # nil
          THEN /\ err' = validateAddress
               /\ failed' = [field |-> focused, value |-> Value(inputs[focused])]
               /\ UNCHANGED <<inputs, focused>>
          ELSE /\ err' = err
               /\ KeyTail(Key(k), nextInput(focused))
               /\ UNCHANGED failed

\* Mutant of KeyAdvance: every field is validated, not To and From alone.
KeyAdvanceValidatesAll ==
    \E k \in AdvanceKeys :
       /\ ~quit
       /\ msg' = Key(k)
       /\ UNCHANGED <<quit, sent>>
       /\ err' = validateAddress
       /\ IF err' # nil
          THEN /\ failed' = [field |-> focused, value |-> Value(inputs[focused])]
               /\ UNCHANGED <<inputs, focused>>
          ELSE /\ KeyTail(Key(k), nextInput(focused))
               /\ UNCHANGED failed

\* enter, tab, ctrl+n
KeyAdvance ==
    \E k \in AdvanceKeys :
       /\ ~quit
       /\ msg' = Key(k)
       /\ UNCHANGED <<quit, sent>>
       /\ IF focused = to \/ focused = from
          THEN /\ err' = validateAddress
               /\ IF err' # nil
                  THEN /\ failed' = [field |-> focused, value |-> Value(inputs[focused])]
                       /\ UNCHANGED <<inputs, focused>>
                  ELSE /\ KeyTail(Key(k), nextInput(focused))
                       /\ UNCHANGED failed
          ELSE /\ err' = err
               /\ KeyTail(Key(k), nextInput(focused))
               /\ UNCHANGED failed

\* Mutant of KeyShiftTab: the field being left is validated, as on an
\* advance.
KeyShiftTabValidates ==
    /\ ~quit
    /\ msg' = Key("KeyShiftTab")
    /\ UNCHANGED <<quit, sent>>
    /\ IF focused = to \/ focused = from
       THEN /\ err' = validateAddress
            /\ IF err' # nil
               THEN /\ failed' = [field |-> focused, value |-> Value(inputs[focused])]
                    /\ UNCHANGED <<inputs, focused>>
               ELSE /\ KeyTail(Key("KeyShiftTab"), prevInput(focused))
                    /\ UNCHANGED failed
       ELSE /\ err' = err
            /\ KeyTail(Key("KeyShiftTab"), prevInput(focused))
            /\ UNCHANGED failed

\* shift+tab
KeyShiftTab ==
    /\ ~quit
    /\ msg' = Key("KeyShiftTab")
    /\ KeyTail(Key("KeyShiftTab"), prevInput(focused))
    /\ UNCHANGED <<err, quit, sent, failed>>

\* Mutant of KeyCtrlS: the message is sent but Update returns no tea.Quit.
KeyCtrlSNoQuit ==
    /\ ~quit
    /\ Len(sent) < MaxSends
    /\ msg' = Key("KeyCtrlS")
    /\ UNCHANGED failed
    /\ IF err # nil
       THEN UNCHANGED <<inputs, focused, err, quit, sent>>
       ELSE /\ sent' = Append(sent, sendMsgArgs)
            /\ UNCHANGED <<inputs, focused, err, quit>>

\* Mutant of KeyCtrlS: the error check before sendMsg is left out.
KeyCtrlSNoErrCheck ==
    /\ ~quit
    /\ Len(sent) < MaxSends
    /\ msg' = Key("KeyCtrlS")
    /\ sent' = Append(sent, sendMsgArgs)
    /\ quit' = TRUE
    /\ UNCHANGED <<inputs, focused, err, failed>>

\* ctrl+s
KeyCtrlS ==
    /\ ~quit
    /\ Len(sent) < MaxSends
    /\ msg' = Key("KeyCtrlS")
    /\ UNCHANGED failed
    /\ IF err # nil
       THEN UNCHANGED <<inputs, focused, err, quit, sent>>
       ELSE /\ sent' = Append(sent, sendMsgArgs)
            /\ quit' = TRUE
            /\ UNCHANGED <<inputs, focused, err>>

\* Mutant of KeyCtrlC: an error blocks quitting, as it blocks sending.
KeyCtrlCBlockedByErr ==
    /\ ~quit
    /\ msg' = Key("KeyCtrlC")
    /\ quit' = (err = nil)
    /\ UNCHANGED <<inputs, focused, err, sent, failed>>

\* ctrl+c
KeyCtrlC ==
    /\ ~quit
    /\ msg' = Key("KeyCtrlC")
    /\ quit' = TRUE
    /\ UNCHANGED <<inputs, focused, err, sent, failed>>

\* Mutant of KeyOther: the key that edits the inputs also sets m.err back
\* to nil.
KeyOtherClearsErr ==
    \E m \in {KeyRunesMsg(r) : r \in Typed} \cup {Key(k) : k \in EditKeys \cup {"KeyEsc"}} :
       /\ ~quit
       /\ \A i \in Fields :
             (inputs[i].focus \/ i = focused) => Len(inputs[i].value) + Len(m.runes) <= MaxLen
       /\ msg' = m
       /\ KeyTail(m, focused)
       /\ err' = nil
       /\ failed' = NoFailure
       /\ UNCHANGED <<quit, sent>>

\* The failure on record after the inputs have become ins: it is dropped
\* once its field holds another content.
StillFailed(ins) ==
    IF failed.field \in Fields /\ Value(ins[failed.field]) # failed.value
    THEN NoFailure ELSE failed

\* Any other key: the switch matches nothing, the inputs are refocused and
\* the key goes to the inputs.
KeyOther ==
    \E m \in {KeyRunesMsg(r) : r \in Typed} \cup {Key(k) : k \in EditKeys \cup {"KeyEsc"}} :
       /\ ~quit
       /\ \A i \in Fields :
             (inputs[i].focus \/ i = focused) => Len(inputs[i].value) + Len(m.runes) <= MaxLen
       /\ msg' = m
       /\ KeyTail(m, focused)
       /\ failed' = StillFailed(inputs')
       /\ UNCHANGED <<err, quit, sent>>

\* Mutant of OtherMsg: the message falls into the errMsg case, which sets
\* m.err and returns.
OtherMsgSetsErr ==
    /\ ~quit
    /\ msg' = Key("BlinkMsg")
    /\ err' = "BlinkMsg"
    /\ UNCHANGED <<inputs, focused, quit, sent, failed>>

\* A message that is neither a key nor an errMsg (the cursor's blink): it
\* goes to the inputs.  No command of the program produces an errMsg (no
\* input has a Validate function), so the errMsg case never runs.
OtherMsg ==
    /\ ~quit
    /\ msg' = Key("BlinkMsg")
    /\ inputs' = UpdateInputs(inputs, Key("BlinkMsg"))
    /\ UNCHANGED <<focused, err, quit, sent, failed>>

Next ==
    \/ KeyAdvance
    \/ KeyShiftTab
    \/ KeyCtrlS
    \/ KeyCtrlC
    \/ KeyOther
    \/ OtherMsg

Spec == Init /\ [][Next]_vars

(* ------------------------------------------------------------ the view *)

Label == <<"To:", "From:", "Subject:", "Body:">>

Placeholder ==
    <<"Enter to address here...", "Enter from address here...",
      "Enter subject here...", "Send a message...">>

Footer == "(ctrl + c to quit or ctrl + s to send) ->"

\* textinput.Model.View of inputs[i]: the placeholder when the value is
\* empty, the value otherwise, with the cursor of a focused input.
InputView(i) ==
    [placeholder |-> IF Value(inputs[i]) = <<>> THEN Placeholder[i + 1] ELSE "",
     value |-> Value(inputs[i]),
     cursor |-> IF inputs[i].focus THEN inputs[i].pos ELSE -1,
     blink |-> inputs[i].blink]

\* The rows both branches of View print: a label and an input, four times.
ViewRows == [n \in 1 .. NumInputs |-> [label |-> Label[n], input |-> InputView(n - 1)]]

\* Mutant of View: the branch for m.err != nil is left out.
ViewNoErrBranch == [rows |-> ViewRows, footer |-> Footer, tail |-> <<>>]

\* View: the rows, the footer and, when m.err is set, m.err.Error() on the
\* line after the footer.  It reads the model and assigns nothing.
View ==
    IF err # nil
    THEN [rows |-> ViewRows, footer |-> Footer, tail |-> <<err>>]
    ELSE [rows |-> ViewRows, footer |-> Footer, tail |-> <<>>]

(* ------------------------------------------------------- derived state *)

\* The four contents in field order: to, from, subject, body.
Values ==
    <<Value(inputs[to]), Value(inputs[from]), Value(inputs[subject]), Value(inputs[body])>>

Empty == <<>>

\* The terminal states of the controller.
Sent == quit /\ sent # <<>>

Quit == quit /\ sent = <<>>

IsAdvance(m) == m.type \in AdvanceKeys

IsEdit(m) == m.type = "KeyRunes" \/ m.type \in EditKeys

(* --------------------------------------------------------------- claims *)

\* C1: whenever sendMsg has been called, the contents of To and of From are
\* both valid addresses (the contents do not change once the message is
\* sent).
C1_SendOnlyAfterValidation ==
    sent # <<>> =>
        ParseAddressOk(Value(inputs[to])) /\ ParseAddressOk(Value(inputs[from]))

\* C2: sendMsg is called at most once in a run; the ctrl+s that calls it
\* ends the run, so it stays the last message handled.
C2_SendAtMostOnce ==
    /\ Len(sent) <= 1
    /\ sent # <<>> => quit /\ msg = Key("KeyCtrlS")

C2_Witness == Sent /\ msg = Key("KeyCtrlS") /\ Len(sent) = 1

\* C3: a ctrl+s handled while err is set calls no sendMsg and changes
\* nothing of the model: inputs (contents, cursors, focus flags), focused and
\* err stay the same and the run goes on.
C3_BlockedSendChangesNothing ==
    [][(msg'.type = "KeyCtrlS" /\ ~quit /\ err # nil) =>
          /\ UNCHANGED <<inputs, focused, err, sent>>
          /\ ~quit']_vars

C3_Witness ==
    /\ msg = Key("KeyCtrlS") /\ err # nil /\ ~quit /\ sent = <<>>
    /\ Value(inputs[to]) = NotAnAddr

\* C4: enter, tab or ctrl+n handled while To or From has the focus and its
\* content is no valid address (the empty string included) leaves focused
\* and every input unchanged and sets err to the invalid-address error.
C4_InvalidAdvanceRejected ==
    [][(IsAdvance(msg') /\ ~quit /\ focused \in {to, from}
           /\ ~ParseAddressOk(Value(inputs[focused]))) =>
          /\ focused' = focused
          /\ err' = InvalidAddress
          /\ inputs' = inputs]_vars

C4_Witness ==
    /\ IsAdvance(msg) /\ focused = from /\ err = InvalidAddress
    /\ Value(inputs[from]) = Empty
    /\ Value(inputs[to]) = AddrA

\* C5: with valid addresses in To and From, every enter, tab or ctrl+n
\* moves focused to (focused + 1) mod 4, so a run of them goes through
\* 0, 1, 2, 3, 0, ...
C5_AdvanceCycles ==
    [][(IsAdvance(msg') /\ ~quit
           /\ ParseAddressOk(Value(inputs[to]))
           /\ ParseAddressOk(Value(inputs[from]))) =>
          /\ focused' = (IF focused = 3 THEN 0 ELSE focused + 1)
          /\ focused' # focused]_vars

C5_Witness ==
    /\ IsAdvance(msg) /\ focused = 0 /\ inputs[0].focus /\ ~quit
    /\ ParseAddressOk(Value(inputs[to]))
    /\ ParseAddressOk(Value(inputs[from]))

\* C6: the call of sendMsg carries the four field contents of that moment,
\* in the order to, from, subject, body.
C6_SendCarriesContents ==
    sent # <<>> =>
        sent[1] = Values

\* The steps of the end-to-end run up to the send: typing the addresses and
\* the four advances.
E2ESteps ==
    /\ (Values = <<Empty, Empty, Empty, Empty>> /\ focused = 0 /\ err = nil
           /\ ~quit /\ msg' = KeyRunesMsg(AddrA)) =>
          (Values' = <<AddrA, Empty, Empty, Empty>> /\ focused' = 0 /\ err' = nil)
    /\ (Values = <<AddrA, Empty, Empty, Empty>> /\ focused = 0 /\ err = nil
           /\ ~quit /\ IsAdvance(msg')) =>
          (Values' = Values /\ focused' = 1 /\ err' = nil)
    /\ (Values = <<AddrA, Empty, Empty, Empty>> /\ focused = 1 /\ err = nil
           /\ ~quit /\ msg' = KeyRunesMsg(AddrC)) =>
          (Values' = <<AddrA, AddrC, Empty, Empty>> /\ focused' = 1 /\ err' = nil)
    /\ (Values = <<AddrA, AddrC, Empty, Empty>> /\ err = nil
           /\ ~quit /\ IsAdvance(msg')) =>
          (Values' = Values /\ focused' = (focused + 1) % 4 /\ err' = nil)

\* C7: the end-to-end run: "a@b.com" typed into To, advance to 1,
\* "c@d.com" typed into From, advance to 2, to 3 and round to 0, and then
\* ctrl+s calls sendMsg once with ("a@b.com", "c@d.com", "", "") and ends
\* the run.
E2EFocusTrace == [][E2ESteps]_vars

E2EReady ==
    /\ Values = <<AddrA, AddrC, Empty, Empty>> /\ focused = 0 /\ err = nil
    /\ ~quit /\ IsAdvance(msg)

C7_EndToEnd ==
    [][/\ E2ESteps
       /\ (E2EReady /\ msg'.type = "KeyCtrlS") =>
             (sent' = <<Values>> /\ quit')]_vars

\* C8: focused is an index of inputs and the input it names is the one
\* input whose focus flag is set.
C8_OneFocused ==
    /\ focused \in Fields
    /\ \A i \in Fields : inputs[i].focus <=> (i = focused)

C8_Witness ==
    /\ msg = Key("KeyShiftTab") /\ focused = body
    /\ inputs[body].focus /\ ~inputs[to].focus
    /\ err # nil

\* C9: a key that edits (runes typed or pasted, a deletion, a cursor move)
\* changes the content and the cursor of no input but the focused one.
C9_EditOnlyFocused ==
    [][(IsEdit(msg') /\ ~quit) =>
          \A j \in Fields :
             j # focused =>
                /\ inputs'[j].value = inputs[j].value
                /\ inputs'[j].pos = inputs[j].pos]_vars

C9_Witness ==
    /\ msg = KeyRunesMsg(AddrC) /\ focused = from
    /\ Values = <<AddrA, AddrC, NotAnAddr, Empty>>

\* C10 as stated: ctrl+c or esc, handled in any state of a run that goes
\* on, ends the run without a validation and without a send.
C10_CtrlCOrEscQuits ==
    [][(msg'.type \in {"KeyCtrlC", "KeyEsc"} /\ ~quit) =>
          (Quit' /\ err' = err /\ sent' = sent)]_vars

\* C10 amended: ctrl+c, which any state of a run that goes on accepts,
\* ends the run with err, the inputs and focused as they were and without
\* a send; esc is an ordinary key and the run goes on.
C10_CtrlCQuits ==
    /\ [](~quit => ENABLED KeyCtrlC)
    /\ [][(msg'.type = "KeyCtrlC" /\ ~quit) =>
             (Quit' /\ UNCHANGED <<inputs, focused, err, sent>>)]_vars
    /\ [][(msg'.type = "KeyEsc" /\ ~quit) => ~quit']_vars

C10_Witness == Quit /\ msg = Key("KeyCtrlC") /\ err # nil /\ focused = from

\* C11: nextInput and prevInput undo each other at every index, the wrap
\* from 3 to 0 and from 0 to 3 included: a shift+tab is undone by nextInput,
\* an advance that moved the focus is undone by prevInput.
C11_NextPrevInverse ==
    /\ [](/\ prevInput(nextInput(focused)) = focused
          /\ nextInput(prevInput(focused)) = focused)
    /\ [][(msg'.type = "KeyShiftTab" /\ ~quit) => nextInput(focused') = focused]_vars
    /\ [][(IsAdvance(msg') /\ ~quit /\ (focused \in {subject, body} \/ err' = nil)) =>
             prevInput(focused') = focused]_vars

C11_Witness ==
    /\ msg = Key("KeyShiftTab") /\ focused = body
    /\ nextInput(focused) = to /\ prevInput(to) = body

\* C12: the view is a function of the model alone and shows the error
\* message exactly when err is set: its last line is err's message when err
\* is set and there is no such line when err is nil; the rows are the four
\* labels with the four contents of the state in field order.
C12_ViewShowsError ==
    /\ (err # nil) <=> (View.tail = <<InvalidAddress>>)
    /\ (err = nil) <=> (View.tail = <<>>)
    /\ \A i \in Fields :
          /\ View.rows[i + 1].label = Label[i + 1]
          /\ View.rows[i + 1].input.value = Value(inputs[i])
    /\ View.footer = Footer

C12_Witness ==
    /\ err # nil /\ IsAdvance(msg) /\ View.tail = <<InvalidAddress>>
    /\ View.rows[1].input.value = NotAnAddr

\* A failed validation stands: its field still holds the content that
\* failed.
FailureStands ==
    failed.field \in Fields /\ Value(inputs[failed.field]) = failed.value

\* C13 as stated: after every advance that moves the focus, from any of the
\* four fields, err is nil.
C13_AdvanceClearsError ==
    [][(IsAdvance(msg') /\ ~quit /\ focused' # focused) => err' = nil]_vars

\* C13 amended: an advance from To or From that moves the focus leaves err
\* nil; an advance from Subject or Body moves the focus and leaves err as it
\* was, set or not.
C13_AdvanceFromAddressClearsError ==
    /\ [][(IsAdvance(msg') /\ ~quit /\ focused \in {to, from} /\ focused' # focused) =>
             err' = nil]_vars
    /\ [][(IsAdvance(msg') /\ ~quit /\ focused \in {subject, body}) =>
             (err' = err /\ focused' # focused)]_vars

C13_Witness ==
    /\ IsAdvance(msg) /\ focused = from /\ err = nil
    /\ Value(inputs[to]) = AddrA
    /\ FailureStands /\ failed.field = from

\* C14: once a validation of To or From has failed, no send happens and no
\* advance leaves that field while it holds the content that failed.
C14_FailureBlocksSend ==
    /\ [](sent # <<>> => ~FailureStands)
    /\ [][(IsAdvance(msg') /\ ~quit /\ FailureStands /\ failed.field = focused) =>
             focused' = focused]_vars

\* C15: shift+tab runs no validation: it moves focused to
\* (focused - 1 + 4) mod 4 whatever the field being left holds, and leaves
\* err as it was.
C15_RetreatKeepsError ==
    [][(msg'.type = "KeyShiftTab" /\ ~quit) =>
          /\ focused' = (IF focused = 0 THEN 3 ELSE focused - 1)
          /\ err' = err
          /\ Values' = Values]_vars

C15_Witness ==
    /\ msg = Key("KeyShiftTab") /\ focused = to /\ err = nil
    /\ Value(inputs[from]) = NotAnAddr /\ ~FailureStands

\* C16: an advance from Subject or Body moves focused to
\* (focused + 1) mod 4 whatever the field holds, and leaves err as it was.
C16_NoValidationOnText ==
    [][(IsAdvance(msg') /\ ~quit /\ focused \in {subject, body}) =>
          /\ focused' = (IF focused = 3 THEN 0 ELSE focused + 1)
          /\ err' = err]_vars

C16_Witness ==
    /\ IsAdvance(msg) /\ focused = body /\ err = nil
    /\ Value(inputs[subject]) = Empty
    /\ Value(inputs[body]) = NotAnAddr

\* C17: a key that is no advance, retreat, send or quit leaves focused and
\* err as they were: typing into the field whose validation failed does not
\* clear the error.
C17_EditKeepsError ==
    [][((IsEdit(msg') \/ msg'.type = "KeyEsc") /\ ~quit) =>
          (focused' = focused /\ err' = err /\ ~quit' /\ sent' = sent)]_vars

C17_Witness ==
    /\ msg = KeyRunesMsg(AddrA) /\ focused = to /\ err # nil
    /\ Value(inputs[to]) = AddrA
    /\ failed = NoFailure

\* C18: a blink message changes nothing but the blink flag of the inputs:
\* focused, err, the focus flags, the contents and the cursors stay, nothing
\* is sent and the run goes on.
C18_BlinkOnlyBlinks ==
    [][(msg'.type = "BlinkMsg" /\ ~quit) =>
          /\ UNCHANGED <<focused, err, sent, quit>>
          /\ \A i \in Fields :
                inputs'[i] = [inputs[i] EXCEPT !.blink = inputs'[i].blink]]_vars

C18_Witness ==
    /\ msg = Key("BlinkMsg") /\ inputs[focused].blink /\ err # nil
    /\ focused = from /\ Value(inputs[to]) = AddrA

\* C19: enter, tab, ctrl+n, shift+tab, ctrl+s and ctrl+c change the content
\* of no field, although the key goes to the inputs once the focus has moved.
C19_ControlKeysKeepContents ==
    [][((IsAdvance(msg') \/ msg'.type \in {"KeyShiftTab", "KeyCtrlS", "KeyCtrlC"}) /\ ~quit) =>
          (Values' = Values /\ \A i \in Fields : inputs'[i].pos = inputs[i].pos)]_vars

C19_Witness ==
    /\ IsAdvance(msg) /\ focused = from /\ inputs[from].focus
    /\ Values = <<AddrA, AddrC, Empty, NotAnAddr>>

\* C20: err is one value for the whole form: a validation of To or From
\* that passes sets err to nil also when the error came from the other
\* address field, which still holds the content that failed.
C20_ErrIsFormWide ==
    [][(IsAdvance(msg') /\ ~quit /\ focused \in {to, from}
           /\ ParseAddressOk(Value(inputs[focused]))
           /\ err # nil /\ FailureStands /\ failed.field \in {to, from} \ {focused}) =>
          (err' = nil /\ FailureStands' /\ failed' = failed)]_vars

C20_Witness ==
    /\ IsAdvance(msg) /\ focused = subject /\ err = nil
    /\ FailureStands /\ failed = [field |-> to, value |-> NotAnAddr]
    /\ Value(inputs[from]) = AddrC

====
